---- MODULE Spec2Model ----
(***************************************************************************)
(* A model of ProjectConfig (waysys/ProjectConfig): the ProjectConfig      *)
(* class of projectconfig.py, the directory validation and the process     *)
(* function of main.py, and the file creators of filecreator.py.           *)
(*                                                                         *)
(* Text.  A Python str is a sequence of atoms.  An atom is one character   *)
(* ("a", "/", "\\", the newline NL) or a literal fragment of the source    *)
(* that holds no separator and no newline ("TESTSUITES", ".properties").   *)
(* str.replace of a one-character pattern is therefore Replace below,      *)
(* and + is \o.                                                            *)
(*                                                                         *)
(* None.  A Python value that may be None is a record                      *)
(* [isNone |-> BOOLEAN, v |-> value]; v is <<>> when isNone.               *)
(***************************************************************************)
EXTENDS Integers, Sequences, FiniteSets, TLC

VARIABLES
    doc,        \* the configuration source (the XML file), never written
    pcf,        \* the ProjectConfig object: _configuration and the cached fields
    fs,         \* the directories that exist
    files,      \* the files written so far: path -> content
    pc,         \* the position of main/process
    checks,     \* the validation checks made so far, in order: [id, path]
    created,    \* the directories created so far, in order
    exc,        \* the exception that ended process, or NoExc
    exitCode,   \* the argument of sys.exit, -1 while running
    call,       \* the last property access made by a caller of ProjectConfig
    failed,     \* the properties whose access has raised
    ncalls,     \* the number of property accesses made
    inp,        \* the text handed to double_backslash
    out         \* the last result of a file creator's function

vars == <<doc, pcf, fs, files, pc, checks, created, exc, exitCode,
          call, failed, ncalls, inp, out>>

-----------------------------------------------------------------------------
(* Bounds *)

MaxSuites == 2      \* the most TestSuite elements of a configuration
MaxCalls == 3       \* the most property accesses of a caller
MaxLen == 4         \* the longest text handed to double_backslash

-----------------------------------------------------------------------------
(* Text *)

BS == "\\"
FS == "/"
NL == "\n"

RECURSIVE Replace(_, _, _)
\* str.replace(old, new) for a one-character old; new is a text
Replace(s, old, new) ==
    IF s = <<>> THEN <<>>
    ELSE (IF Head(s) = old THEN new ELSE <<Head(s)>>) \o Replace(Tail(s), old, new)

Range(s) == {s[i] : i \in 1..Len(s)}

RECURSIVE SplitFrom(_, _, _, _)
\* the pieces of s between the occurrences of sep, after the pieces acc and
\* the unfinished piece cur
SplitFrom(s, sep, acc, cur) ==
    IF s = <<>> THEN Append(acc, cur)
    ELSE IF Head(s) = sep THEN SplitFrom(Tail(s), sep, Append(acc, cur), <<>>)
    ELSE SplitFrom(Tail(s), sep, acc, Append(cur, Head(s)))

Split(s, sep) == SplitFrom(s, sep, <<>>, <<>>)

\* t with every forward slash turned into a backslash
Backslashed(t) == [i \in 1..Len(t) |-> IF t[i] = FS THEN BS ELSE t[i]]

-----------------------------------------------------------------------------
(* Python values and exceptions *)

None == [isNone |-> TRUE, v |-> <<>>]
Some(x) == [isNone |-> FALSE, v |-> x]

NoExc == [kind |-> "none", msg |-> <<>>]
ProjectConfigException(message) == [kind |-> "ProjectConfigException", msg |-> message]
\* str + None
TypeError == [kind |-> "TypeError", msg |-> <<>>]
AssertionError(message) == [kind |-> "AssertionError", msg |-> message]

\* the outcome of a call on the ProjectConfig p: its state after, what it
\* raised, what it returned
Return(p, x) == [p |-> p, exc |-> NoExc, val |-> x]
Raise(p, e) == [p |-> p, exc |-> e, val |-> None]

\* F applied to the value of x, which is computed once
Bind(x, F(_)) == CHOOSE y \in {F(v) : v \in {x}} : TRUE

\* the statements F after the statements whose outcome is x: an exception
\* of x ends the function
Then(x, F(_)) == Bind(x, LAMBDA o : IF o.exc # NoExc THEN o ELSE F(o))

-----------------------------------------------------------------------------
(* The configuration source *)

Absent == [present |-> FALSE, text |-> None, children |-> <<>>]
Element(t) == [present |-> TRUE, text |-> t, children |-> <<>>]
\* a TestSuites element and the texts of its TestSuite children
SuitesElement(ts) == [present |-> TRUE, text |-> None, children |-> ts]

Tags == {"Root", "Workspace", "Project", "Environment", "Product", "Server",
         "SuiteDirectory", "TestSuites"}

Document(kind, root, workspace, project, environment, product, server, sd, suites) ==
    [kind |-> kind,
     elems |-> [t \in Tags |->
        CASE t = "Root" -> root
          [] t = "Workspace" -> workspace
          [] t = "Project" -> project
          [] t = "Environment" -> environment
          [] t = "Product" -> product
          [] t = "Server" -> server
          [] t = "SuiteDirectory" -> sd
          [] OTHER -> suites]]

-----------------------------------------------------------------------------
(* projectconfig.py *)

ProductCodes == {<<"P", "C">>, <<"B", "C">>, <<"C", "C">>}

\* ProjectConfig.__init__
NewProjectConfig ==
    [configuration |-> FALSE,
     root |-> None, workspace |-> None, project |-> None, environment |-> None,
     product |-> None, test_suites |-> None, server |-> None]

\* ProjectConfig.parse: the exception it raises, NoExc when it returns
parse_exc ==
    CASE doc.kind = "missing" ->
            ProjectConfigException(<<"Project config file does not exist - ">>)
      [] doc.kind = "malformed" -> ProjectConfigException(<<"ParseError">>)
      [] doc.kind = "wrongroot" ->
            ProjectConfigException(<<"Root element is not TestConfiguration - ">>)
      [] OTHER -> NoExc

parse(p) ==
    IF parse_exc = NoExc
    THEN Return([p EXCEPT !.configuration = TRUE], None)
    ELSE Raise(p, parse_exc)

\* ProjectConfig.configuration
configuration(p) ==
    IF p.configuration THEN Return(p, None)
    ELSE Raise(p, AssertionError(<<"Top level element has not been set">>))

\* ProjectConfig.fetch_element on the top level element
fetch_element(p, tag) ==
    IF ~doc.elems[tag].present
    THEN Raise(p, ProjectConfigException(
            <<"fetch_element: Element ", tag, " was not found in element ",
              "TestConfiguration">>))
    ELSE Return(p, None)

\* ProjectConfig.fetch_text on the top level element
fetch_text(p, tag) ==
    LET r == fetch_element(p, tag)
    IN  IF r.exc # NoExc THEN r ELSE Return(p, doc.elems[tag].text)

\* ProjectConfig.has_element on the top level element
has_element(tag) == doc.elems[tag].present

\* the properties root, workspace, project, environment and server: field
\* is the cached attribute, tag the element
simple_property(p, field, tag) ==
    LET c == configuration(p)
        r == fetch_text(p, tag)
    IN  IF ~p[field].isNone THEN Return(p, p[field])
        ELSE IF c.exc # NoExc THEN c
        ELSE IF r.exc # NoExc THEN r
        ELSE Return([p EXCEPT ![field] = r.val], r.val)

root(p) == simple_property(p, "root", "Root")
workspace(p) == simple_property(p, "workspace", "Workspace")
project(p) == simple_property(p, "project", "Project")
environment(p) == simple_property(p, "environment", "Environment")
server(p) == simple_property(p, "server", "Server")

\* product without the test of the abbreviation
product_unchecked(p) ==
    LET c == configuration(p)
        r == fetch_text(p, "Product")
    IN  IF ~p.product.isNone THEN Return(p, p.product)
        ELSE IF c.exc # NoExc THEN c
        ELSE IF r.exc # NoExc THEN r
        ELSE Return([p EXCEPT !.product = r.val], r.val)

\* ProjectConfig.product
product(p) ==
    LET c == configuration(p)
        r == fetch_text(p, "Product")
        q == [p EXCEPT !.product = r.val]
    IN  IF ~p.product.isNone THEN Return(p, p.product)
        ELSE IF c.exc # NoExc THEN c
        ELSE IF r.exc # NoExc THEN r
        ELSE IF r.val.isNone THEN Raise(q, TypeError)
        ELSE IF r.val.v \notin ProductCodes
             THEN Raise(q, ProjectConfigException(
                    <<"Invalid product abbreviation - ">> \o r.val.v))
        ELSE Return(q, r.val)

\* ProjectConfig.test_suites
test_suites(p) ==
    LET c == configuration(p)
        r == fetch_element(p, "TestSuites")
        l == doc.elems["TestSuites"].children
        q == [p EXCEPT !.test_suites = Some(l)]
    IN  IF ~p.test_suites.isNone THEN Return(p, p.test_suites)
        ELSE IF c.exc # NoExc THEN c
        ELSE IF r.exc # NoExc THEN r
        ELSE IF Len(l) = 0
             THEN Raise(q, ProjectConfigException(<<"No test suites were found">>))
        ELSE Return(q, Some(l))

\* ProjectConfig.test_suite_directory
test_suite_directory(p) ==
    LET n == project(p)
        c == configuration(n.p)
    IN  IF n.exc # NoExc THEN n
        ELSE IF c.exc # NoExc THEN c
        ELSE IF has_element("SuiteDirectory")
             THEN fetch_text(n.p, "SuiteDirectory")
        ELSE n

\* the property named f of the ProjectConfig p
Property(p, f) ==
    CASE f = "root" -> root(p)
      [] f = "workspace" -> workspace(p)
      [] f = "project" -> project(p)
      [] f = "environment" -> environment(p)
      [] f = "product" -> product(p)
      [] f = "test_suites" -> test_suites(p)
      [] f = "test_suite_directory" -> test_suite_directory(p)
      [] OTHER -> server(p)

-----------------------------------------------------------------------------
(* filecreator.py *)

\* path += self.pcf.<f> + sep, after the statements whose outcome is x
AppendProperty(x, f, sep) ==
    Then(x, LAMBDA o :
    Then(Property(o.p, f), LAMBDA r :
        IF r.val.isNone THEN Raise(r.p, TypeError)
        ELSE Return(r.p, Some(o.val.v \o r.val.v \o sep))))

\* path += test_suite + tail, after the statements whose outcome is x
AppendSuite(x, test_suite, tail) ==
    Then(x, LAMBDA o :
        IF test_suite.isNone THEN Raise(o.p, TypeError)
        ELSE Return(o.p, Some(o.val.v \o test_suite.v \o tail)))

\* path = path.replace(old, new), after the statements whose outcome is x
Replaced(x, old, new) ==
    Then(x, LAMBDA o : Return(o.p, Some(Replace(o.val.v, old, new))))

\* drive without the replacement of the forward slashes
drive_unreplaced(p) ==
    Then(root(p), LAMBDA r :
        IF r.val.isNone THEN Raise(r.p, [kind |-> "AttributeError", msg |-> <<>>])
        ELSE Return(r.p, Some(r.val.v)))

\* FileCreator.drive; _drive caches a value computed from the cached root
drive(p) ==
    Then(root(p), LAMBDA r :
        IF r.val.isNone THEN Raise(r.p, [kind |-> "AttributeError", msg |-> <<>>])
        ELSE Return(r.p, Some(Replace(r.val.v, FS, <<BS>>))))

\* FileCreator.project_dir
project_dir(p) ==
    Then(drive(p), LAMBDA d :
        AppendProperty(AppendProperty(AppendProperty(
            Return(d.p, Some(d.val.v \o <<BS>>)), "environment", <<BS>>),
            "product", <<BS>>), "project", <<>>))

\* FileCreator.generate_property_filename
FileCreator_generate_property_filename(p, test_suite) ==
    Replaced(AppendSuite(AppendProperty(AppendProperty(AppendProperty(
        Return(p, Some(<<BS>>)), "environment", <<BS>>), "product", <<BS>>),
        "project", <<BS>>), test_suite, <<".properties">>), FS, <<BS>>)

\* java_templte without its placeholder
JavaLinePrefix ==
    <<"java  -ea -jar %DRIVE%", BS, "EXEC", BS, "runGFIT.jar -prop %DRIVE%">>

\* BatFileCreator.generate_java_line
generate_java_line(p, test_suite) ==
    Then(FileCreator_generate_property_filename(p, test_suite), LAMBDA f :
        Return(f.p, Some(<<NL>> \o JavaLinePrefix \o f.val.v \o <<NL>>)))

RECURSIVE java_lines_reversed(_, _)
\* the loop over the suites l with each line put before the earlier ones
java_lines_reversed(p, l) ==
    IF l = <<>> THEN Return(p, Some(<<>>))
    ELSE Then(generate_java_line(p, Head(l)), LAMBDA h :
         Then(java_lines_reversed(h.p, Tail(l)), LAMBDA t :
            Return(t.p, Some(t.val.v \o h.val.v \o <<NL>>))))

RECURSIVE java_lines(_, _)
\* the loop of BatFileCreator.generate_content over the suites l
java_lines(p, l) ==
    IF l = <<>> THEN Return(p, Some(<<>>))
    ELSE Then(generate_java_line(p, Head(l)), LAMBDA h :
         Then(java_lines(h.p, Tail(l)), LAMBDA t :
            Return(t.p, Some(h.val.v \o <<NL>> \o t.val.v))))

\* BatFileCreator.generate_content
BatFileCreator_generate_content(p) ==
    Then(test_suites(p), LAMBDA ts :
    Then(java_lines(ts.p, ts.val.v), LAMBDA jl :
    Then(drive(jl.p), LAMBDA d :
        Return(d.p, Some(<<NL, "SET DRIVE=">> \o d.val.v \o <<NL>>
                         \o jl.val.v \o <<NL>>)))))

\* BatFileCreator.file_name
file_name(p) ==
    Then(project_dir(p), LAMBDA d :
        Return(d.p, Some(d.val.v \o <<FS, "rungfit.bat">>)))

\* PropertyCreator.generate_property_filename
PropertyCreator_generate_property_filename(p, test_suite) ==
    Replaced(AppendSuite(AppendProperty(AppendProperty(AppendProperty(AppendProperty(
        Return(p, Some(<<>>)), "root", <<BS>>), "environment", <<BS>>),
        "product", <<BS>>), "project", <<BS>>), test_suite, <<".properties">>),
        FS, <<BS>>)

\* double_backslash without the first replacement
double_backslash_once(path) == Replace(path, FS, <<BS, BS>>)

\* PropertyCreator.double_backslash
double_backslash(path) == Replace(Replace(path, BS, <<FS>>), FS, <<BS, BS>>)

\* path = PropertyCreator.double_backslash(path), after the statements whose
\* outcome is x
DoubleBackslashed(x) ==
    Then(x, LAMBDA o : Return(o.p, Some(double_backslash(o.val.v))))

\* PropertyCreator.generate_test_suite_path
generate_test_suite_path(p, test_suite) ==
    DoubleBackslashed(AppendSuite(AppendProperty(AppendProperty(AppendProperty(
        Return(p, Some(<<>>)), "root", <<FS, "TESTSUITES", FS>>), "product", <<FS>>),
        "project", <<FS>>), test_suite, <<>>))

\* PropertyCreator.generate_reports_path
generate_reports_path(p, test_suite) ==
    DoubleBackslashed(AppendSuite(AppendProperty(AppendProperty(AppendProperty(
        Return(p, Some(<<>>)), "workspace", <<FS>>), "environment", <<FS>>),
        "project", <<FS>>), test_suite, <<>>))

-----------------------------------------------------------------------------
(* The file system.  A directory or file is known by the components of its  *)
(* path: pathlib on Windows takes / and \ alike as separators and drops     *)
(* empty components.                                                        *)

Canon(path) == SelectSeq(Split(Backslashed(path), BS), LAMBDA c : c # <<>>)
Parent(c) == SubSeq(c, 1, Len(c) - 1)

\* the state a function of main.py or filecreator.py works on: the
\* ProjectConfig, the directories, the files, the log of the checks and of
\* the directories created, the exception raised and the value returned
Machine(p, d, f, c, k) ==
    [p |-> p, fs |-> d, files |-> f, checks |-> c, created |-> k,
     exc |-> NoExc, val |-> None]

Fail(m, e) == [m EXCEPT !.exc = e]

\* Path(dir_name).is_dir()
PathIsDir(d, dir_name) == Canon(dir_name) \in d

\* is_dir of main.py; dir_name may be None
is_dir(m, dir_name) ==
    IF dir_name.isNone
    THEN Fail(m, AssertionError(<<"Directory name must not be None">>))
    ELSE IF Len(dir_name.v) = 0
    THEN Fail(m, AssertionError(<<"Directory name must not be an empty ">>))
    ELSE [m EXCEPT !.val = PathIsDir(m.fs, dir_name.v)]

\* Path(dir_name).mkdir()
mkdir(m, dir_name) ==
    IF Canon(dir_name) \in m.fs \/ Canon(dir_name) \in DOMAIN m.files
    THEN Fail(m, [kind |-> "FileExistsError", msg |-> dir_name])
    ELSE IF Parent(Canon(dir_name)) \notin m.fs
    THEN Fail(m, [kind |-> "FileNotFoundError", msg |-> dir_name])
    ELSE [m EXCEPT !.fs = @ \cup {Canon(dir_name)}, !.created = Append(@, dir_name)]

\* create_dir
create_dir(m, dir_name) ==
    Then(IF PathIsDir(m.fs, dir_name) THEN m ELSE mkdir(m, dir_name), LAMBDA a :
        IF PathIsDir(a.fs, dir_name) THEN a
        ELSE Fail(a, AssertionError(<<"Directory was not created - ">> \o dir_name)))

\* a + "/" + b of main.py, where b may be None
Joined(m, b) == IF b.isNone THEN Fail(m, TypeError) ELSE m

\* if not is_dir(dir_name): raise ProjectConfigException(message + dir_name);
\* id names the check in the log
Required(m, id, dir_name, message) ==
    Then(is_dir(m, dir_name), LAMBDA a :
        IF a.val
        THEN [a EXCEPT !.checks = Append(@, [id |-> id, path |-> dir_name.v, found |-> TRUE])]
        ELSE Fail([a EXCEPT !.checks =
                        Append(@, [id |-> id, path |-> dir_name.v, found |-> FALSE])],
                  ProjectConfigException(message \o dir_name.v)))

\* if not is_dir(dir_name): create_dir(dir_name)
CreatedIfAbsent(m, id, dir_name) ==
    Then(is_dir(m, Some(dir_name)), LAMBDA a :
        IF a.val
        THEN [a EXCEPT !.checks = Append(@, [id |-> id, path |-> dir_name, found |-> TRUE])]
        ELSE create_dir([a EXCEPT !.checks =
                            Append(@, [id |-> id, path |-> dir_name, found |-> FALSE])],
                        dir_name))

\* validate_root without the raise
validate_root_silent(m, root_dir) ==
    Then(is_dir(m, root_dir), LAMBDA a :
        [a EXCEPT !.checks = Append(@, [id |-> "root", path |-> root_dir.v,
                                        found |-> a.val])])

\* validate_root
validate_root(m, root_dir) ==
    Required(m, "root", root_dir, <<"Root directory does not exist - ">>)

\* validate_workspace that creates the environment directory when absent
validate_workspace_creating(m, ws, env, proj) ==
    LET environ_path == ws.v \o <<FS>> \o env.v
        project_path == environ_path \o <<FS>> \o proj.v
    IN  Then(Required(m, "workspace", ws, <<"Workspace directory does not exist - ">>),
        LAMBDA a :
        Then(Joined(a, env), LAMBDA b :
        Then(CreatedIfAbsent(b, "workspace/environment", environ_path), LAMBDA c :
        Then(Joined(c, proj), LAMBDA d :
            CreatedIfAbsent(d, "workspace/environment/project", project_path)))))

\* validate_workspace
validate_workspace(m, ws, env, proj) ==
    LET environ_path == ws.v \o <<FS>> \o env.v
        project_path == environ_path \o <<FS>> \o proj.v
    IN  Then(Required(m, "workspace", ws, <<"Workspace directory does not exist - ">>),
        LAMBDA a :
        Then(Joined(a, env), LAMBDA b :
        Then(Required(b, "workspace/environment", Some(environ_path),
                      <<"Environment directory in workspace does not exist - ">>),
        LAMBDA c :
        Then(Joined(c, proj), LAMBDA d :
            CreatedIfAbsent(d, "workspace/environment/project", project_path)))))

\* validate_exec_dir
validate_exec_dir(m, rt, env, prod, proj) ==
    LET environ_path == rt.v \o <<FS>> \o env.v
        product_path == environ_path \o <<FS>> \o prod.v
        project_path == product_path \o <<FS>> \o proj.v
    IN  Then(Required(m, "exec root", rt, <<"Root directory does not exist - ">>),
        LAMBDA a :
        Then(Joined(a, env), LAMBDA b :
        Then(Required(b, "root/environment", Some(environ_path),
                      <<"Environment directory does not exist - ">>),
        LAMBDA c :
        Then(Joined(c, prod), LAMBDA d :
        Then(Required(d, "root/environment/product", Some(product_path),
                      <<"Product directory does not exist - ">>),
        LAMBDA e :
        Then(Joined(e, proj), LAMBDA f :
            CreatedIfAbsent(f, "root/environment/product/project", project_path)))))))

RECURSIVE suite_dirs_backwards(_, _, _)
\* the loop over the suites l from the last to the first
suite_dirs_backwards(m, test_suite_project_dir, l) ==
    IF l = <<>> THEN m
    ELSE Then(Joined(m, l[Len(l)]), LAMBDA a :
         Then(Required(a, "suite", Some(test_suite_project_dir \o <<FS>> \o l[Len(l)].v),
                       <<"Suite directory does not exist - ">>),
         LAMBDA b : suite_dirs_backwards(b, test_suite_project_dir,
                                         SubSeq(l, 1, Len(l) - 1))))

RECURSIVE suite_dirs(_, _, _)
\* the loop of validate_test_suites over the suites l
suite_dirs(m, test_suite_project_dir, l) ==
    IF l = <<>> THEN m
    ELSE Then(Joined(m, Head(l)), LAMBDA a :
         Then(Required(a, "suite", Some(test_suite_project_dir \o <<FS>> \o Head(l).v),
                       <<"Suite directory does not exist - ">>),
         LAMBDA b : suite_dirs(b, test_suite_project_dir, Tail(l))))

\* validate_test_suites
validate_test_suites(m, rt, prod, proj, suites) ==
    LET test_suite_root == rt.v \o <<FS, "TESTSUITES">>
        test_suite_product_dir == test_suite_root \o <<FS>> \o prod.v
        test_suite_project_dir == test_suite_product_dir \o <<FS>> \o proj.v
    IN  Then(Joined(m, rt), LAMBDA a :
        Then(Required(a, "root/TESTSUITES", Some(test_suite_root),
                      <<"Test suite root  directory does not exist - ">>),
        LAMBDA b :
        Then(Joined(b, prod), LAMBDA c :
        Then(Required(c, "root/TESTSUITES/product", Some(test_suite_product_dir),
                      <<"Test suite root  directory does not exist - ">>),
        LAMBDA d :
        Then(Joined(d, proj), LAMBDA e :
        Then(Required(e, "suite parent", Some(test_suite_project_dir),
                      <<"Test suite root  directory does not exist - ">>),
        LAMBDA f : suite_dirs(f, test_suite_project_dir, suites.v)))))))

RECURSIVE Args(_, _)
\* the properties names of project_config, read in order as the arguments
\* of a call; val is the sequence of their values
Args(m, names) ==
    IF names = <<>> THEN [m EXCEPT !.val = <<>>]
    ELSE Bind(Property(m.p, Head(names)), LAMBDA o :
            IF o.exc # NoExc THEN [m EXCEPT !.p = o.p, !.exc = o.exc]
            ELSE Then(Args([m EXCEPT !.p = o.p], Tail(names)), LAMBDA t :
                    [t EXCEPT !.val = <<o.val>> \o @]))

-----------------------------------------------------------------------------
(* filecreator.py: the url, the properties document and the files written *)

LowerChar(c) ==
    CASE c = "B" -> "b" [] c = "C" -> "c" [] c = "P" -> "p" [] c = "X" -> "x"
      [] OTHER -> c

\* str.lower
Lower(t) == [i \in 1..Len(t) |-> LowerChar(t[i])]

\* ports with the entries of bc and cc exchanged
ports_swapped ==
    [k \in {<<"b", "c">>, <<"c", "c">>, <<"p", "c">>} |->
        CASE k = <<"b", "c">> -> <<"8080">>
          [] k = <<"c", "c">> -> <<"8580">>
          [] OTHER -> <<"8180">>]

ports ==
    [k \in {<<"b", "c">>, <<"c", "c">>, <<"p", "c">>} |->
        CASE k = <<"b", "c">> -> <<"8580">>
          [] k = <<"c", "c">> -> <<"8080">>
          [] OTHER -> <<"8180">>]

\* FileCreator.product
FileCreator_product(p) ==
    Then(product(p), LAMBDA r :
        IF r.val.isNone THEN Raise(r.p, [kind |-> "AttributeError", msg |-> <<>>])
        ELSE Return(r.p, Some(Lower(r.val.v))))

\* PropertyCreator.generate_url
generate_url(p) ==
    Then(FileCreator_product(p), LAMBDA r :
        IF r.val.v \notin DOMAIN ports
        THEN Raise(r.p, AssertionError(<<"Product abbreviation is inccorrect - ">>
                                       \o r.val.v))
        ELSE Then(server(r.p), LAMBDA sv :
            IF sv.val.isNone THEN Raise(sv.p, TypeError)
            ELSE Return(sv.p, Some(<<"http:", FS, FS>> \o sv.val.v \o <<":">>
                                   \o ports[r.val.v] \o <<FS>> \o r.val.v))))

\* generate_content with the testsuite and reports lines exchanged
PropertyCreator_generate_content_exchanged(p, test_suite) ==
    Then(generate_url(p), LAMBDA url :
    Then(generate_test_suite_path(url.p, test_suite), LAMBDA ts :
    Then(generate_reports_path(ts.p, test_suite), LAMBDA reports :
        Return(reports.p, Some(
            <<NL, "url", "=">> \o url.val.v
            \o <<NL, "username", "=", "su", NL, "password", "=", "gw">>
            \o <<NL, "reports", "=">> \o reports.val.v
            \o <<NL, "testsuite", "=">> \o ts.val.v
            \o <<NL, "timeout", "=", "960000", NL>>)))))

\* PropertyCreator.generate_content with properties_template
PropertyCreator_generate_content(p, test_suite) ==
    Then(generate_url(p), LAMBDA url :
    Then(generate_test_suite_path(url.p, test_suite), LAMBDA ts :
    Then(generate_reports_path(ts.p, test_suite), LAMBDA reports :
        Return(reports.p, Some(
            <<NL, "url", "=">> \o url.val.v
            \o <<NL, "username", "=", "su", NL, "password", "=", "gw">>
            \o <<NL, "testsuite", "=">> \o ts.val.v
            \o <<NL, "reports", "=">> \o reports.val.v
            \o <<NL, "timeout", "=", "960000", NL>>)))))

\* the outcome o of a call on the ProjectConfig, within the machine m
Lift(m, o) == [m EXCEPT !.p = o.p, !.exc = o.exc, !.val = o.val]

\* the files f with the content v at k
Put(f, k, v) == [x \in DOMAIN f \cup {k} |-> IF x = k THEN v ELSE f[x]]

\* FileCreator.open_file: open(filename, mode="w") makes the file, or empties it
open_file(m, filename) ==
    IF Parent(Canon(filename)) \notin m.fs \/ Canon(filename) \in m.fs
    THEN Fail(m, ProjectConfigException(<<"Unable to open ">> \o filename
                                        \o <<" because ">>))
    ELSE [m EXCEPT !.files = Put(@, Canon(filename), <<>>)]

\* BatFileCreator.create_rungfit
create_rungfit(m) ==
    Then(Bind(file_name(m.p), LAMBDA o : Lift(m, o)), LAMBDA name :
    Then(open_file(name, name.val.v), LAMBDA file :
    Then(Bind(BatFileCreator_generate_content(file.p), LAMBDA o : Lift(file, o)),
    LAMBDA content :
        [content EXCEPT !.files = Put(@, Canon(name.val.v), content.val.v)])))

\* PropertyCreator.create_properties_file
create_properties_file(m, test_suite) ==
    Then(Bind(PropertyCreator_generate_property_filename(m.p, test_suite),
              LAMBDA o : Lift(m, o)), LAMBDA name :
    Then(open_file(name, name.val.v), LAMBDA file :
    Then(Bind(PropertyCreator_generate_content(file.p, test_suite),
              LAMBDA o : Lift(file, o)),
    LAMBDA content :
        [content EXCEPT !.files = Put(@, Canon(name.val.v), content.val.v)])))

RECURSIVE properties_files(_, _)
\* the loop of PropertyCreator.create_properties_files over the suites l
properties_files(m, l) ==
    IF l = <<>> THEN m
    ELSE Then(create_properties_file(m, Head(l)), LAMBDA a :
            properties_files(a, Tail(l)))

\* PropertyCreator.create_properties_files
create_properties_files(m) ==
    Then(Bind(test_suites(m.p), LAMBDA o : Lift(m, o)), LAMBDA ts :
        properties_files(ts, ts.val.v))

-----------------------------------------------------------------------------
(* Configuration sources *)

SeqsUpTo(S, n) == UNION {[1..k -> S] : k \in 0..n}

\* an element that is missing, has no text, or has one of the texts
ElemChoices(texts) == {Absent, Element(None)} \cup {Element(Some(t)) : t \in texts}

RootText == <<"r">>
WorkspaceText == <<"w">>
ProjectText == <<"p">>
EnvironmentText == <<"e">>
ServerText == <<"h">>
SuiteDirText == <<"q">>
SuiteNames == {<<"s">>, <<"t">>}
ProductTexts == ProductCodes \cup {<<"X", "X">>, <<"b", "c">>}

ProductElems == ElemChoices(ProductTexts)
SuitesElems ==
    {Absent} \cup {SuitesElement(l) : l \in SeqsUpTo({None} \cup {Some(n) : n \in SuiteNames}, MaxSuites)}

\* the configuration of a project p of product BC with the suites s and t
BaseDoc(kind) ==
    Document(kind, Element(Some(RootText)), Element(Some(WorkspaceText)),
             Element(Some(ProjectText)), Element(Some(EnvironmentText)),
             Element(Some(<<"B", "C">>)), Element(Some(ServerText)), Absent,
             SuitesElement(<<Some(<<"s">>), Some(<<"t">>)>>))

\* d with the element tag replaced by e
WithElem(d, tag, e) == [d EXCEPT !.elems[tag] = e]

\* the sources that differ from the base in one element, and the files that
\* do not parse
Docs1 ==
    {BaseDoc(k) : k \in {"missing", "malformed", "wrongroot"}}
    \cup {WithElem(BaseDoc("ok"), "Product", e) : e \in ProductElems}
    \cup {WithElem(BaseDoc("ok"), "TestSuites", e) : e \in SuitesElems}
    \cup {WithElem(BaseDoc("ok"), "SuiteDirectory", e) : e \in ElemChoices({SuiteDirText})}
    \cup {WithElem(BaseDoc("ok"), "Root", e) : e \in ElemChoices({RootText})}
    \cup {WithElem(BaseDoc("ok"), "Workspace", e) : e \in ElemChoices({WorkspaceText})}
    \cup {WithElem(BaseDoc("ok"), "Project", e) : e \in ElemChoices({ProjectText})}
    \cup {WithElem(BaseDoc("ok"), "Environment", e) : e \in ElemChoices({EnvironmentText})}
    \cup {WithElem(BaseDoc("ok"), "Server", e) : e \in ElemChoices({ServerText})}

-----------------------------------------------------------------------------
(* A caller of ProjectConfig: parse, then property accesses in any order *)

NoCall == [name |-> "none", exc |-> NoExc, val |-> None]
NoOut == [op |-> "none", arg |-> None, exc |-> NoExc, val |-> None]

\* the variables of the other specifications
Idle == /\ fs = {} /\ files = <<>> /\ pc = "idle" /\ checks = <<>>
        /\ created = <<>> /\ exc = NoExc /\ exitCode = -1
        /\ inp = <<>> /\ out = NoOut

InitModel ==
    /\ doc \in Docs1
    /\ pcf = NewProjectConfig
    /\ call = NoCall /\ failed = {} /\ ncalls = 0
    /\ Idle

UnchangedRun == UNCHANGED <<doc, fs, files, pc, checks, created, exc, exitCode, inp, out>>

\* the caller makes the call named name, whose outcome is r
Called(name, r) ==
    /\ ncalls < MaxCalls
    /\ ncalls' = ncalls + 1
    /\ pcf' = r.p
    /\ call' = [name |-> name, exc |-> r.exc, val |-> r.val]
    /\ failed' = IF r.exc # NoExc THEN failed \cup {name} ELSE failed
    /\ UnchangedRun

CallParse == ~pcf.configuration /\ Called("parse", parse(pcf))
GetRoot == Called("root", root(pcf))
GetWorkspace == Called("workspace", workspace(pcf))
GetProject == Called("project", project(pcf))
GetEnvironment == Called("environment", environment(pcf))
GetProduct == Called("product", product(pcf))
GetTestSuites == Called("test_suites", test_suites(pcf))
GetTestSuiteDirectory == Called("test_suite_directory", test_suite_directory(pcf))
GetServer == Called("server", server(pcf))

NextModel ==
    \/ CallParse
    \/ GetRoot
    \/ GetWorkspace
    \/ GetProject
    \/ GetEnvironment
    \/ GetProduct
    \/ GetTestSuites
    \/ GetTestSuiteDirectory
    \/ GetServer

SpecModel == InitModel /\ [][NextModel]_vars

-----------------------------------------------------------------------------
(* Claims on ProjectConfig *)

\* C1: after a successful parse, every access to product, the first and every
\* later one, also one made after an earlier access failed, raises
\* ProjectConfigException or returns one of BC, CC, PC
C1_ProductInCodes ==
    (pcf.configuration /\ call.name = "product") =>
        \/ call.exc.kind = "ProjectConfigException"
        \/ call.exc = NoExc /\ ~call.val.isNone /\ call.val.v \in ProductCodes

\* C2: after a successful parse, every access to test_suites, the first and
\* every later one, raises ProjectConfigException or returns a sequence that
\* is not empty
C2_SuitesNotEmpty ==
    (pcf.configuration /\ call.name = "test_suites") =>
        \/ call.exc.kind = "ProjectConfigException"
        \/ call.exc = NoExc /\ ~call.val.isNone /\ Len(call.val.v) > 0

RequiredFields == {"root", "workspace", "environment", "product", "project", "server"}

\* C13: after a successful parse, every access to root, workspace,
\* environment, product, project or server raises ProjectConfigException or
\* returns a string that is neither null nor empty, also when the element is
\* present without a text
C13_RequiredFieldsNotNull ==
    (pcf.configuration /\ call.name \in RequiredFields) =>
        \/ call.exc.kind = "ProjectConfigException"
        \/ call.exc = NoExc /\ ~call.val.isNone /\ call.val.v # <<>>

-----------------------------------------------------------------------------
(* main.py: one run of main on a configuration source and a file system *)

\* the directories of a file system before the run: every directory the
\* run of a configuration looks at may exist or not, under its parent
Name(tag, default) ==
    IF doc.elems[tag].text.isNone THEN default ELSE doc.elems[tag].text.v

Ancestors(c) == {SubSeq(c, 1, k) : k \in 1..(Len(c) - 1)}

\* base and the first j names under it, for every j
Chains(base, names) ==
    {{base \o SubSeq(names, 1, k) : k \in 0..j} : j \in 0..Len(names)}

\* nothing, or parent with some of the suite directories
SuiteTrees(parent) ==
    {{}} \cup {{parent} \cup {parent \o <<n>> : n \in S} : S \in SUBSET SuiteNames}

Trees ==
    LET R == Canon(Name("Root", RootText))
        W == Canon(Name("Workspace", WorkspaceText))
        e == Name("Environment", EnvironmentText)
        P == Name("Product", <<"B", "C">>)
        j == Name("Project", ProjectText)
        T == R \o << <<"TESTSUITES">>, P >>
        WsTrees == {{}} \cup {Ancestors(W) \cup c : c \in Chains(W, <<e, j>>)}
        ExecTrees == {{}} \cup Chains(R \o <<e>>, <<P, j>>)
        TsTrees == {{}, {Parent(T)}}
                   \cup {{Parent(T), T} \cup a \cup b :
                            a \in SuiteTrees(T \o <<j>>),
                            b \in SuiteTrees(T \o <<SuiteDirText>>)}
        RootTrees == {{}} \cup {Ancestors(R) \cup {R} \cup x \cup t :
                                    x \in ExecTrees, t \in TsTrees}
    IN  {w \cup r : w \in WsTrees, r \in RootTrees}

\* the sources of the runs: those of Docs1, and the sources with every
\* element, a root with either separator, a valid or an invalid product,
\* with or without SuiteDirectory
DocsRun ==
    Docs1 \cup
    {Document("ok", Element(Some(r)), Element(Some(WorkspaceText)),
              Element(Some(ProjectText)), Element(Some(EnvironmentText)),
              Element(Some(pd)), Element(Some(ServerText)), sd, SuitesElement(l)) :
        r \in {RootText, <<"d", BS, "r">>},
        pd \in {<<"B", "C">>, <<"P", "C">>, <<"X", "X">>},
        sd \in {Absent, Element(Some(SuiteDirText))},
        l \in SeqsUpTo({Some(n) : n \in SuiteNames}, MaxSuites) \ {<<>>}}

Init ==
    /\ doc \in DocsRun
    /\ pcf = NewProjectConfig
    /\ fs \in Trees
    /\ files = <<>>
    /\ pc = "parse"
    /\ checks = <<>> /\ created = <<>>
    /\ exc = NoExc /\ exitCode = -1
    /\ call = NoCall /\ failed = {} /\ ncalls = 0
    /\ inp = <<>> /\ out = NoOut

\* the machine of the current state
M == Machine(pcf, fs, files, checks, created)

\* a statement of process ends in the machine m: process goes on at the
\* statement to, or the exception of m leaves process
Step(to, m) ==
    /\ pcf' = m.p
    /\ fs' = m.fs
    /\ files' = m.files
    /\ checks' = m.checks
    /\ created' = m.created
    /\ exc' = m.exc
    /\ pc' = IF m.exc = NoExc THEN to ELSE "raised"
    /\ UNCHANGED <<doc, exitCode, call, failed, ncalls, inp, out>>

\* project_config = ProjectConfig(project_config_filename); project_config.parse()
Parse ==
    /\ pc = "parse"
    /\ \E m \in {Bind(parse(pcf), LAMBDA o : Lift(M, o))} : Step("validate_root", m)

\* validate_root(project_config.root)
ValidateRoot ==
    /\ pc = "validate_root"
    /\ \E m \in {Then(Args(M, <<"root">>), LAMBDA a : validate_root(a, a.val[1]))} :
            Step("validate_workspace", m)

\* validate_workspace(project_config.workspace, project_config.environment,
\*                    project_config.project)
ValidateWorkspace ==
    /\ pc = "validate_workspace"
    /\ \E m \in {Then(Args(M, <<"workspace", "environment", "project">>), LAMBDA a :
                    validate_workspace(a, a.val[1], a.val[2], a.val[3]))} :
            Step("validate_exec_dir", m)

\* validate_exec_dir(project_config.root, project_config.environment,
\*                   project_config.product, project_config.project)
ValidateExecDir ==
    /\ pc = "validate_exec_dir"
    /\ \E m \in {Then(Args(M, <<"root", "environment", "product", "project">>),
                    LAMBDA a :
                    validate_exec_dir(a, a.val[1], a.val[2], a.val[3], a.val[4]))} :
            Step("validate_test_suites", m)

\* validate_test_suites(project_config.root, project_config.product,
\*                      project_config.project, project_config.test_suites)
ValidateTestSuites ==
    /\ pc = "validate_test_suites"
    /\ \E m \in {Then(Args(M, <<"root", "product", "project", "test_suites">>),
                    LAMBDA a :
                    validate_test_suites(a, a.val[1], a.val[2], a.val[3], a.val[4]))} :
            Step("create_rungfit", m)

\* create_rungfit in the place of validate_test_suites
CreateRungfit_early ==
    /\ pc = "validate_test_suites"
    /\ \E m \in {create_rungfit(M)} : Step("create_properties_files", m)

\* bat_creator = BatFileCreator(project_config); bat_creator.create_rungfit()
CreateRungfit ==
    /\ pc = "create_rungfit"
    /\ \E m \in {create_rungfit(M)} : Step("create_properties_files", m)

\* properties_creator = PropertyCreator(project_config)
\* properties_creator.create_properties_files()
CreatePropertiesFiles ==
    /\ pc = "create_properties_files"
    /\ \E m \in {create_properties_files(M)} : Step("returned", m)

\* the exceptions of the run that are instances of Exception
Exceptions ==
    {"ProjectConfigException", "TypeError", "AssertionError", "AttributeError",
     "FileExistsError", "FileNotFoundError"}

\* main without the except Exception clause
Exit_config_only ==
    /\ pc \in {"raised", "returned"}
    /\ IF pc = "returned"
       THEN exitCode' = 0 /\ pc' = "exited"
       ELSE IF exc.kind = "ProjectConfigException"
       THEN exitCode' = 1 /\ pc' = "exited"
       ELSE pc' = "fault" /\ UNCHANGED exitCode
    /\ UNCHANGED <<doc, pcf, fs, files, checks, created, exc, call, failed, ncalls,
                   inp, out>>

\* main: a ProjectConfigException of process is printed and sys.exit(1)
\* called, so is any other Exception; an exception neither clause catches
\* leaves main; with no exception sys.exit(0) is called
Exit ==
    /\ pc \in {"raised", "returned"}
    /\ IF pc = "returned"
       THEN exitCode' = 0 /\ pc' = "exited"
       ELSE IF exc.kind = "ProjectConfigException"
       THEN exitCode' = 1 /\ pc' = "exited"
       ELSE IF exc.kind \in Exceptions
       THEN exitCode' = 1 /\ pc' = "exited"
       ELSE pc' = "fault" /\ UNCHANGED exitCode
    /\ UNCHANGED <<doc, pcf, fs, files, checks, created, exc, call, failed, ncalls,
                   inp, out>>

Next ==
    \/ Parse
    \/ ValidateRoot
    \/ ValidateWorkspace
    \/ ValidateExecDir
    \/ ValidateTestSuites
    \/ CreateRungfit
    \/ CreatePropertiesFiles
    \/ Exit

Spec == Init /\ [][Next]_vars

\* the sources of the runs whose end is followed: the base, the files that
\* do not parse, and the base with another Root, Product, Server or
\* TestSuites element
DocsFair ==
    {BaseDoc(k) : k \in {"ok", "missing", "malformed", "wrongroot"}}
    \cup {WithElem(BaseDoc("ok"), "Root", e) : e \in ElemChoices({RootText})}
    \cup {WithElem(BaseDoc("ok"), "Product", e) : e \in ProductElems}
    \cup {WithElem(BaseDoc("ok"), "Server", e) : e \in ElemChoices({ServerText})}
    \cup {WithElem(BaseDoc("ok"), "TestSuites", e) :
            e \in {Absent, SuitesElement(<<>>), SuitesElement(<<None>>),
                   SuitesElement(<<Some(<<"t">>)>>)}}

InitFair == doc \in DocsFair /\ Init

\* the interpreter runs the next statement of a run that has not ended
SpecFair == InitFair /\ [][Next]_vars /\ WF_vars(Next)

-----------------------------------------------------------------------------
(* The file creators on a parsed configuration *)

Chars == {"a", FS, BS}
Texts == SeqsUpTo(Chars, MaxLen)

RootTexts == {<<"r">>, <<"r", FS, "x">>, <<"r", BS, "x">>, <<"c", FS, "r", BS, "x">>,
              <<"r", FS, FS, "x">>}
WorkspaceTexts == {<<"w">>, <<"w", BS, "v", FS, "u">>}
EnvironmentTexts == {<<"e">>, <<"e", FS, "f">>}
SuiteTexts == SuiteNames \cup {<<"s", FS, "u">>}

\* sources whose elements are all present, with paths of mixed separators
DocsText ==
    {Document("ok", Element(Some(r)), Element(Some(w)), Element(Some(ProjectText)),
              Element(Some(e)), Element(Some(pd)), Element(Some(ServerText)), Absent,
              SuitesElement(l)) :
        r \in RootTexts, w \in WorkspaceTexts, e \in EnvironmentTexts,
        pd \in ProductCodes,
        l \in SeqsUpTo({Some(n) : n \in SuiteTexts}, MaxSuites) \ {<<>>}}

InitText ==
    /\ \/ doc \in DocsText /\ inp = <<>>
       \/ doc = BaseDoc("ok") /\ inp \in Texts
    /\ pcf = [NewProjectConfig EXCEPT !.configuration = TRUE]
    /\ out = NoOut
    /\ fs = {} /\ files = <<>> /\ pc = "idle" /\ checks = <<>>
    /\ created = <<>> /\ exc = NoExc /\ exitCode = -1
    /\ call = NoCall /\ failed = {} /\ ncalls = 0

UnchangedText == UNCHANGED <<doc, fs, files, pc, checks, created, exc, exitCode,
                             call, failed, ncalls, inp>>

\* the function op is applied to arg with the outcome r
Applied(op, arg, r) ==
    /\ out' = [op |-> op, arg |-> arg, exc |-> r.exc, val |-> r.val]
    /\ pcf' = r.p
    /\ UnchangedText

Suites == doc.elems["TestSuites"].children

DoubleBackslash ==
    Applied("double_backslash", Some(inp), Return(pcf, Some(double_backslash(inp))))

GenerateContent ==
    Applied("generate_content", None, BatFileCreator_generate_content(pcf))

GeneratePropertyFilename ==
    \E i \in 1..Len(Suites) :
        Applied("generate_property_filename", Suites[i],
                PropertyCreator_generate_property_filename(pcf, Suites[i]))

GenerateTestSuitePath ==
    \E i \in 1..Len(Suites) :
        Applied("generate_test_suite_path", Suites[i],
                generate_test_suite_path(pcf, Suites[i]))

GenerateReportsPath ==
    \E i \in 1..Len(Suites) :
        Applied("generate_reports_path", Suites[i],
                generate_reports_path(pcf, Suites[i]))

NextText ==
    \/ DoubleBackslash
    \/ GenerateContent
    \/ GeneratePropertyFilename
    \/ GenerateTestSuitePath
    \/ GenerateReportsPath

SpecText == InitText /\ [][NextText]_vars

-----------------------------------------------------------------------------
(* The PropertyCreator on a parsed configuration *)

\* sources whose product or server element is missing, empty or unusual
DocsUrl ==
    {WithElem(BaseDoc("ok"), "Product", e) : e \in ProductElems}
    \cup {WithElem(BaseDoc("ok"), "Server", e) : e \in ElemChoices({ServerText})}

\* sources of every product code, with paths of mixed separators
DocsProperties ==
    DocsUrl \cup
    {Document("ok", Element(Some(r)), Element(Some(w)), Element(Some(ProjectText)),
              Element(Some(EnvironmentText)), Element(Some(pd)),
              Element(Some(ServerText)), Absent, SuitesElement(l)) :
        r \in {<<"r">>, <<"c", FS, "r", BS, "x">>}, w \in WorkspaceTexts,
        pd \in ProductCodes,
        l \in SeqsUpTo({Some(n) : n \in SuiteTexts}, MaxSuites) \ {<<>>}}

InitProperties ==
    /\ doc \in DocsProperties /\ inp = <<>>
    /\ pcf = [NewProjectConfig EXCEPT !.configuration = TRUE]
    /\ out = NoOut
    /\ fs = {} /\ files = <<>> /\ pc = "idle" /\ checks = <<>>
    /\ created = <<>> /\ exc = NoExc /\ exitCode = -1
    /\ call = NoCall /\ failed = {} /\ ncalls = 0

GenerateUrl ==
    Applied("generate_url", None, generate_url(pcf))

GeneratePropertiesContent ==
    \E i \in 1..Len(Suites) :
        Applied("generate_properties_content", Suites[i],
                PropertyCreator_generate_content(pcf, Suites[i]))

NextProperties ==
    \/ GenerateUrl
    \/ GeneratePropertiesContent

SpecProperties == InitProperties /\ [][NextProperties]_vars

-----------------------------------------------------------------------------
(* Claims on the file creators *)

\* the lines of a script that are not empty
Lines(s) == SelectSeq(Split(s, NL), LAMBDA l : l # <<>>)

TextOf(tag) == doc.elems[tag].text.v

\* the path an invocation line refers to once %DRIVE% is expanded with the
\* value the header line sets
Referred(ls, i) ==
    SubSeq(ls[1], 2, Len(ls[1]))
        \o SubSeq(ls[i + 1], Len(JavaLinePrefix) + 1, Len(ls[i + 1]))

\* C8: for every suite, the properties file the launcher's invocation line
\* refers to is the file PropertyCreator writes, for any mixture of / and \
\* in root
C8_LauncherRefersToWrittenFile ==
    (out.op = "generate_content" /\ out.exc = NoExc) =>
        \A i \in 1..Len(Suites) :
            /\ i + 1 <= Len(Lines(out.val.v))
            /\ Referred(Lines(out.val.v), i) =
                   PropertyCreator_generate_property_filename(pcf, Suites[i]).val.v
            /\ Referred(Lines(out.val.v), i) =
                   Backslashed(TextOf("Root")) \o <<BS>>
                   \o Backslashed(TextOf("Environment")) \o <<BS>>
                   \o TextOf("Product") \o <<BS>> \o TextOf("Project") \o <<BS>>
                   \o Backslashed(Suites[i].v) \o <<".properties">>

C8_Witness ==
    /\ out.op = "generate_content" /\ out.exc = NoExc
    /\ {FS, BS} \subseteq Range(TextOf("Root"))
    /\ Len(Suites) = 2

\* C9: the launcher script is a header declaring the base path followed by
\* exactly one invocation line per test suite, in the order of testSuites,
\* duplicates included, each referring to
\* \environment\product\project\suite.properties with backslashes only
C9_LauncherLines ==
    (out.op = "generate_content" /\ out.exc = NoExc) =>
        LET ls == Lines(out.val.v)
        IN  /\ Len(ls) = 1 + Len(Suites)
            /\ ls[1] = <<"SET DRIVE=">> \o Backslashed(TextOf("Root"))
            /\ \A i \in 1..Len(Suites) :
                /\ ls[i + 1] = JavaLinePrefix \o <<BS>>
                       \o Backslashed(TextOf("Environment")) \o <<BS>>
                       \o TextOf("Product") \o <<BS>> \o TextOf("Project") \o <<BS>>
                       \o Backslashed(Suites[i].v) \o <<".properties">>
                /\ FS \notin Range(ls[i + 1])

C9_Witness ==
    /\ out.op = "generate_content" /\ out.exc = NoExc
    /\ Len(Suites) = 2 /\ Suites[1] = Suites[2]
    /\ FS \in Range(TextOf("Environment"))

\* a maximal run of backslashes of t from i to j
BackslashRun(t, i, j) ==
    /\ i <= j
    /\ \A k \in i..j : t[k] = BS
    /\ (i = 1 \/ t[i - 1] # BS)
    /\ (j = Len(t) \/ t[j + 1] # BS)

DoubledOps == {"double_backslash", "generate_test_suite_path", "generate_reports_path"}

\* C10: for any path of ordinary characters, / and \ in any mixture, the
\* doubled-backslash form holds no forward slash and every maximal run of
\* backslashes in it has an even length
C10_DoubledBackslashes ==
    (out.op \in DoubledOps /\ out.exc = NoExc) =>
        /\ FS \notin Range(out.val.v)
        /\ \A i, j \in 1..Len(out.val.v) :
              BackslashRun(out.val.v, i, j) => (j - i + 1) % 2 = 0

C10_Witness ==
    /\ out.op = "double_backslash"
    /\ \E i \in 1..(Len(inp) - 2) : inp[i] = BS /\ inp[i + 1] = BS /\ inp[i + 2] = FS
    /\ "a" \in Range(inp)

\* the port the specification gives for a product code
PortOf(code) ==
    CASE code = <<"B", "C">> -> <<"8580">>
      [] code = <<"C", "C">> -> <<"8080">>
      [] code = <<"P", "C">> -> <<"8180">>

\* the product element of the source holds one of the three product codes
ValidProduct ==
    /\ doc.elems["Product"].present
    /\ ~doc.elems["Product"].text.isNone
    /\ TextOf("Product") \in ProductCodes

\* the server element of the source holds a text
HasServer ==
    doc.elems["Server"].present /\ ~doc.elems["Server"].text.isNone

\* C11: for every valid product code the url is
\* http://<server>:<port>/<product in lower case>, with the port 8580 for BC,
\* 8080 for CC and 8180 for PC
C11_UrlOfValidProduct ==
    (out.op = "generate_url" /\ ValidProduct /\ HasServer) =>
        /\ out.exc = NoExc
        /\ out.val = Some(<<"http:", FS, FS>> \o TextOf("Server") \o <<":">>
                          \o PortOf(TextOf("Product")) \o <<FS>>
                          \o Lower(TextOf("Product")))

C11_Witness ==
    /\ out.op = "generate_url" /\ out.exc = NoExc
    /\ TextOf("Product") = <<"C", "C">>
    /\ out.val.v = <<"http:", FS, FS, "h", ":", "8080", FS, "c", "c">>

\* C12: when the url is computed for a configuration whose product code is
\* not in the port table, the computation fails with ProjectConfigException
\* and with no other kind of error
C12_UnknownProductIsConfigError ==
    (/\ out.op = "generate_url"
     /\ doc.elems["Product"].present
     /\ ~doc.elems["Product"].text.isNone
     /\ Lower(TextOf("Product")) \notin DOMAIN ports) =>
        out.exc.kind = "ProjectConfigException"

\* the place of the first = of the line l, or 0
RECURSIVE EqualsAt(_, _)
EqualsAt(l, i) ==
    IF i > Len(l) THEN 0 ELSE IF l[i] = "=" THEN i ELSE EqualsAt(l, i + 1)

\* the key and the value a reader of key=value lines gets from the line l
KeyOf(l) == SubSeq(l, 1, EqualsAt(l, 1) - 1)
ValueOf(l) == SubSeq(l, EqualsAt(l, 1) + 1, Len(l))

PropertyKeys == <<"url", "username", "password", "testsuite", "reports", "timeout">>

\* C15: a properties document has exactly the six lines url, username,
\* password, testsuite, reports, timeout, in that order, each key=value on a
\* line of its own; read back, the lines give the url, the test suite path
\* and the reports path that were computed and the constants su, gw and
\* 960000
C15_PropertiesRoundTrip ==
    (out.op = "generate_properties_content" /\ out.exc = NoExc) =>
        LET ls == Lines(out.val.v)
        IN  /\ Len(ls) = 6
            /\ \A i \in 1..6 :
                  /\ EqualsAt(ls[i], 1) = 2
                  /\ KeyOf(ls[i]) = <<PropertyKeys[i]>>
            /\ ValueOf(ls[1]) = generate_url(pcf).val.v
            /\ ValueOf(ls[2]) = <<"su">>
            /\ ValueOf(ls[3]) = <<"gw">>
            /\ ValueOf(ls[4]) = generate_test_suite_path(pcf, out.arg).val.v
            /\ ValueOf(ls[5]) = generate_reports_path(pcf, out.arg).val.v
            /\ ValueOf(ls[6]) = <<"960000">>
            /\ ValueOf(ls[1]) = <<"http:", FS, FS>> \o TextOf("Server") \o <<":">>
                                \o ports[Lower(TextOf("Product"))] \o <<FS>>
                                \o Lower(TextOf("Product"))
            /\ ValueOf(ls[4]) = double_backslash(
                                    TextOf("Root") \o <<FS, "TESTSUITES", FS>>
                                    \o TextOf("Product") \o <<FS>> \o TextOf("Project")
                                    \o <<FS>> \o out.arg.v)
            /\ ValueOf(ls[5]) = double_backslash(
                                    TextOf("Workspace") \o <<FS>> \o TextOf("Environment")
                                    \o <<FS>> \o TextOf("Project") \o <<FS>> \o out.arg.v)

C15_Witness ==
    /\ out.op = "generate_properties_content" /\ out.exc = NoExc
    /\ {FS, BS} \subseteq Range(TextOf("Root"))
    /\ FS \in Range(out.arg.v)
    /\ TextOf("Product") = <<"P", "C">>

-----------------------------------------------------------------------------
(* Claims on the runs of main *)

\* every element of tags is present with a text
AllText(tags) == \A t \in tags : ~doc.elems[t].text.isNone

\* the source parses and has Root, Workspace, Environment, Project and
\* Product with a text, and suites with a text
WellFormed ==
    /\ doc.kind = "ok"
    /\ AllText({"Root", "Workspace", "Environment", "Project", "Product"})
    /\ doc.elems["TestSuites"].present
    /\ \A i \in 1..Len(Suites) : ~Suites[i].isNone

Ended == pc \in {"raised", "exited"}

WorkspaceProject ==
    TextOf("Workspace") \o <<FS>> \o TextOf("Environment") \o <<FS>> \o TextOf("Project")
ExecProduct ==
    TextOf("Root") \o <<FS>> \o TextOf("Environment") \o <<FS>> \o TextOf("Product")
ExecProject == ExecProduct \o <<FS>> \o TextOf("Project")
TestSuitesProduct ==
    TextOf("Root") \o <<FS, "TESTSUITES", FS>> \o TextOf("Product")

CreateIds == {"workspace/environment/project", "root/environment/product/project"}

InvalidProductMessage == "Invalid product abbreviation - "

\* the source has an invalid product code, and the elements read before it
InvalidProduct ==
    /\ doc.kind = "ok"
    /\ AllText({"Root", "Workspace", "Environment", "Project", "Product"})
    /\ TextOf("Product") \notin ProductCodes

\* C3 as stated: a run whose product code is invalid fails with the product
\* error before any directory is checked or created
C3_NoValidationBeforeProductError ==
    (InvalidProduct /\ exc.kind = "ProjectConfigException"
        /\ exc.msg[1] = InvalidProductMessage)
    => (checks = <<>> /\ created = <<>>)

\* C3 amended: with an invalid product code the product is read only when
\* the exec directory stage is called.  The run makes no check under
\* root/environment or root/TESTSUITES and creates nothing but
\* workspace/environment/project; it ends with a ProjectConfigException, the
\* one of the product exactly when root, workspace and workspace/environment
\* were checked and found and workspace/environment/project checked (and
\* created if absent), otherwise the one of the first of these three that
\* is missing
C3_ProductErrorAfterWorkspace ==
    InvalidProduct =>
        /\ pc \in {"parse", "validate_root", "validate_workspace", "validate_exec_dir",
                   "raised", "exited"}
        /\ \A i \in 1..Len(checks) :
              checks[i].id \in {"root", "workspace", "workspace/environment",
                                "workspace/environment/project"}
        /\ \A i \in 1..Len(created) : created[i] = WorkspaceProject
        /\ files = <<>>
        /\ Ended =>
            /\ exc.kind = "ProjectConfigException"
            /\ IF Len(checks) = 4
               THEN /\ exc.msg = <<InvalidProductMessage>> \o TextOf("Product")
                    /\ \A i \in 1..3 : checks[i].found
                    /\ Canon(WorkspaceProject) \in fs
               ELSE /\ ~checks[Len(checks)].found
                    /\ SubSeq(exc.msg, 2, Len(exc.msg)) = checks[Len(checks)].path

C3_Witness ==
    /\ InvalidProduct
    /\ pc = "raised"
    /\ exc.msg[1] = InvalidProductMessage
    /\ created = <<WorkspaceProject>>

\* the checks of the log but the second look of validate_exec_dir at root
FirstLooks == SelectSeq(checks, LAMBDA c : c.id # "exec root")

\* the first nine directories of the order of the checks
FixedOrder ==
    <<TextOf("Root"),
      TextOf("Workspace"),
      TextOf("Workspace") \o <<FS>> \o TextOf("Environment"),
      WorkspaceProject,
      TextOf("Root") \o <<FS>> \o TextOf("Environment"),
      ExecProduct,
      ExecProject,
      TextOf("Root") \o <<FS, "TESTSUITES">>,
      TestSuitesProduct>>

DirectoryMessages ==
    {"Root directory does not exist - ", "Workspace directory does not exist - ",
     "Environment directory in workspace does not exist - ",
     "Environment directory does not exist - ", "Product directory does not exist - ",
     "Test suite root  directory does not exist - ", "Suite directory does not exist - "}

\* C4: the directories are checked in one fixed order: root, workspace,
\* workspace/environment, workspace/environment/project, root/environment,
\* root/environment/product, root/environment/product/project,
\* root/TESTSUITES, root/TESTSUITES/product, the parent of the suite
\* directories, then one directory for each suite in the order of
\* testSuites.  The run stops at the first required directory that is missing:
\* that check is the last one made and the ProjectConfigException names its
\* path.  (validate_exec_dir looks at root once more; root was found before.)
C4_FixedOrderFirstMissing ==
    WellFormed =>
        /\ Len(FirstLooks) <= 10 + Len(Suites)
        /\ \A i \in 1..Len(FirstLooks) :
              /\ i <= 9 => FirstLooks[i].path = FixedOrder[i]
              /\ i = 10 => SubSeq(FirstLooks[i].path, 1, Len(TestSuitesProduct) + 1)
                              = TestSuitesProduct \o <<FS>>
              /\ i > 10 => FirstLooks[i].path =
                              FirstLooks[10].path \o <<FS>> \o Suites[i - 10].v
        /\ \A i \in 1..Len(checks) :
              /\ checks[i].id = "exec root" =>
                    checks[i].found /\ checks[i].path = TextOf("Root")
              /\ (~checks[i].found /\ checks[i].id \notin CreateIds) =>
                    /\ i = Len(checks)
                    /\ Ended
                    /\ exc.kind = "ProjectConfigException"
                    /\ exc.msg[1] \in DirectoryMessages
                    /\ SubSeq(exc.msg, 2, Len(exc.msg)) = checks[i].path
        /\ (exc.kind = "ProjectConfigException" /\ exc.msg[1] \in DirectoryMessages) =>
              /\ Len(checks) > 0
              /\ ~checks[Len(checks)].found
              /\ SubSeq(exc.msg, 2, Len(exc.msg)) = checks[Len(checks)].path
        /\ pc \in {"create_rungfit", "create_properties_files", "returned"} =>
              /\ Len(FirstLooks) = 10 + Len(Suites)
              /\ \A i \in 1..Len(checks) : PathIsDir(fs, checks[i].path)

\* the first of two suites, in the order t then s, is missing, and so is
\* the second
C4_Witness ==
    /\ WellFormed
    /\ pc = "raised"
    /\ Suites = <<Some(<<"t">>), Some(<<"s">>)>>
    /\ Len(FirstLooks) = 11
    /\ ~checks[Len(checks)].found
    /\ ~PathIsDir(fs, FirstLooks[10].path \o <<FS, "s">>)
    /\ Len(created) = 2

\* C5: when root is not a directory the run ends with the
\* ProjectConfigException "Root directory does not exist", and no file is
\* written and no directory created, whatever other directories exist
C5_RootMissing ==
    (doc.kind = "ok" /\ AllText({"Root"}) /\ ~PathIsDir(fs, TextOf("Root"))) =>
        /\ pc \in {"parse", "validate_root", "raised", "exited"}
        /\ Ended => exc = ProjectConfigException(
                            <<"Root directory does not exist - ">> \o TextOf("Root"))
        /\ files = <<>>
        /\ created = <<>>

C5_Witness ==
    /\ doc.kind = "ok" /\ AllText({"Root"}) /\ ~PathIsDir(fs, TextOf("Root"))
    /\ pc = "exited" /\ exitCode = 1
    /\ exc.msg[1] = "Root directory does not exist - "
    /\ PathIsDir(fs, TextOf("Workspace") \o <<FS>> \o TextOf("Environment"))

\* the text of SuiteDirectory when the element is present, else the project
SuiteDirectoryName ==
    IF has_element("SuiteDirectory") THEN TextOf("SuiteDirectory") ELSE TextOf("Project")

\* C6 as stated: the suites are validated under
\* root/TESTSUITES/product/testSuiteDirectory, where testSuiteDirectory is
\* the text of SuiteDirectory when present and the project otherwise: that
\* directory and the directory of every suite under it are the ones checked,
\* and a run goes on to write files only if they all exist
C6_SuitesUnderSuiteDirectory ==
    (WellFormed /\ (has_element("SuiteDirectory") => AllText({"SuiteDirectory"}))) =>
        /\ \A i \in 1..Len(FirstLooks) :
              /\ i = 10 => FirstLooks[i].path =
                              TestSuitesProduct \o <<FS>> \o SuiteDirectoryName
              /\ i > 10 => FirstLooks[i].path =
                              TestSuitesProduct \o <<FS>> \o SuiteDirectoryName
                              \o <<FS>> \o Suites[i - 10].v
        /\ pc \in {"create_rungfit", "create_properties_files", "returned"} =>
              \A k \in 1..Len(Suites) :
                  PathIsDir(fs, TestSuitesProduct \o <<FS>> \o SuiteDirectoryName
                                \o <<FS>> \o Suites[k].v)

\* the launcher and the properties file of every suite are written with a
\* content, after every directory of the validation was found or created
Succeeded ==
    /\ WellFormed
    /\ Len(FirstLooks) = 10 + Len(Suites)
    /\ \A i \in 1..Len(checks) : PathIsDir(fs, checks[i].path)
    /\ Canon(ExecProject \o <<FS, "rungfit.bat">>) \in DOMAIN files
    /\ files[Canon(ExecProject \o <<FS, "rungfit.bat">>)] # <<>>
    /\ \A i \in 1..Len(Suites) :
          /\ Canon(ExecProject \o <<FS>> \o Suites[i].v \o <<".properties">>)
                \in DOMAIN files
          /\ files[Canon(ExecProject \o <<FS>> \o Suites[i].v \o <<".properties">>)]
                # <<>>

\* C14: every run ends with the exit code 0 or 1: 0 exactly when the parse,
\* every validation stage and every file write succeeded, 1 exactly when
\* process raised a ProjectConfigException or any other exception; no
\* exception leaves main uncaught
C14_ExitCodeZeroOrOne ==
    /\ [](pc # "fault")
    /\ [](pc = "exited" =>
            /\ exitCode \in {0, 1}
            /\ exitCode = 0 <=> Succeeded
            /\ exitCode = 0 <=> exc = NoExc
            /\ exitCode = 1 <=> exc.kind \in Exceptions)
    /\ [](pc # "exited" => exitCode = -1)
    /\ <>(pc = "exited")

\* a run ended by an exception that is not a ProjectConfigException
C14_Witness ==
    /\ pc = "exited" /\ exitCode = 1
    /\ exc.kind = "TypeError"
    /\ Len(checks) > 0

\* every directory of the four validation stages was found or created
Validated ==
    /\ WellFormed
    /\ Len(FirstLooks) = 10 + Len(Suites)
    /\ \A i \in 1..Len(checks) : PathIsDir(fs, checks[i].path)

Launcher == Canon(ExecProject \o <<FS, "rungfit.bat">>)
PropertiesFile(i) == Canon(ExecProject \o <<FS>> \o Suites[i].v \o <<".properties">>)

ValidationStages ==
    {"validate_root", "validate_workspace", "validate_exec_dir", "validate_test_suites"}

\* C16: the launcher and the properties files are written only after the
\* four validation stages succeeded, the launcher before any properties
\* file; when a validation stage fails no file has been written, and the
\* only change of the file system is the creation of at most the two project
\* directories, which are not removed
C16_ArtifactsAfterValidation ==
    /\ [](files # <<>> =>
            /\ Validated
            /\ pc \in {"create_properties_files", "returned", "raised", "exited"}
            /\ Launcher \in DOMAIN files /\ files[Launcher] # <<>>
            /\ DOMAIN files \subseteq
                  {Launcher} \cup {PropertiesFile(i) : i \in 1..Len(Suites)})
    /\ [](~Validated =>
            /\ files = <<>>
            /\ Len(created) <= 2
            /\ Range(created) \subseteq {WorkspaceProject, ExecProject})
    /\ [][/\ pc \in {"parse"} \cup ValidationStages => files' = <<>>
          /\ (DOMAIN files' # DOMAIN files /\ pc # "create_rungfit") =>
                /\ pc = "create_properties_files"
                /\ Launcher \in DOMAIN files
          /\ pc \in {"raised", "returned"} => files' = files /\ fs' = fs
          /\ fs \subseteq fs'
          /\ fs' \ fs \subseteq {Canon(WorkspaceProject), Canon(ExecProject)}
          /\ fs' # fs => pc \in ValidationStages
          /\ \A f \in DOMAIN files : f \in DOMAIN files']_vars

\* a run that created the two project directories and then found a suite
\* directory missing
C16_Witness ==
    /\ pc = "exited" /\ exitCode = 1
    /\ ~Validated
    /\ Len(created) = 2
    /\ files = <<>>
    /\ Len(FirstLooks) > 10

\* C7: a run creates at most two directories, and only
\* workspace/environment/project and root/environment/product/project, each
\* only when it is absent and its parent exists; the check that finds one
\* absent does not end the run; no other directory is created and none is
\* removed
C7_OnlyTwoDirectoriesCreated ==
    /\ [](/\ Len(created) <= 2
          /\ \A i \in 1..Len(created) :
                /\ created[i] \in {WorkspaceProject, ExecProject}
                /\ \A k \in 1..Len(created) : created[k] = created[i] => k = i
          /\ \A i \in 1..Len(checks) :
                (checks[i].id \in CreateIds /\ ~checks[i].found) =>
                    /\ PathIsDir(fs, checks[i].path)
                    /\ checks[i].path \in Range(created))
    /\ [][/\ fs \subseteq fs'
          /\ \A d \in fs' \ fs :
                /\ Parent(d) \in fs
                /\ d \in {Canon(WorkspaceProject), Canon(ExecProject)}
          /\ (Len(checks') > Len(checks) /\ checks'[Len(checks')].id \in CreateIds) =>
                pc' # "raised"]_vars

C7_Witness ==
    /\ Len(created) = 2
    /\ pc = "returned"

====
